---- MODULE Spec2Model ----
(***************************************************************************)
(* Session concurrency core of the Genesis UI: SimulationManager           *)
(* (ui/simulation/simulation_manager.py), the AnalysisManager tracker it   *)
(* owns (ui/simulation/analysis_manager.py) and the process-wide console   *)
(* (ui/utils/console_logger.py).                                           *)
(*                                                                         *)
(* One controller thread issues start / stop / create_object /             *)
(* update_visualization calls one at a time; every successful start()      *)
(* spawns a worker thread running simulate_frames.  Controller calls that  *)
(* span a blocking point or a shared-field hand-over are split at those    *)
(* points, workers are split at each read of the shared fields.  There     *)
(* the console's calls are atomic; the console model at the end has        *)
(* threads calling ConsoleLogger directly, with its lock.                  *)
(***************************************************************************)
EXTENDS Integers, Sequences, FiniteSets, TLC

\* ---------------------------------------------------------------- bounds
MaxScenes == 2      \* gs.Scene() constructions explored (one per start that gets that far)
MaxSamples == 1     \* tracker size from which no worker begins a further iteration
MaxEntities == 1    \* successful create_object calls explored per session
MaxMessages == 1    \* console capacity explored (ConsoleLogger defaults to 100)
MaxRegistered == 2  \* successful create_object calls per session in the registry model
MaxTracked == 3     \* tracker size from which no worker iterates in the tracker model
MaxCallers == 2     \* threads calling the console directly in the console model
MaxLogged == 3      \* appends and clears explored in the console model
MaxRecorded == 2    \* update_tracking calls explored in the analysis model

\* ------------------------------------------------------------- constants
NumConfigKeys == 8  \* keys of the config dict the UI hands to start()

None == 0           \* Python's None for the fields holding a scene or thread id
NoCamera == "None"  \* Python's None for the camera field
Entity == "entity"  \* an entity handle returned by scene.add_entity
Camera == "camera"  \* the camera object returned by scene.add_camera
Sample == "sample"  \* what one update_tracking call appends to a history

VARIABLES
    simulation_running,   \* SimulationManager.simulation_running
    simulation_thread,    \* SimulationManager.simulation_thread: None or an index of threads
    scene,                \* SimulationManager.scene: None or a scene id
    entities,             \* SimulationManager.entities: entity id -> entity handle
    entity_count,         \* SimulationManager.entity_count
    camera,               \* SimulationManager.camera: None or the camera object
    recording,            \* SimulationManager.recording
    timestamps,           \* AnalysisManager.timestamps
    position_history,     \* AnalysisManager.position_history
    velocity_history,     \* AnalysisManager.velocity_history
    energy_history,       \* AnalysisManager.energy_history
    messages,             \* ConsoleLogger.messages: the retained entries (the level of each
                          \* where the manager logs, the formatted line in the console model)
    threads,              \* every Thread ever started: [pc, frame_count, sc]
    scene_count,          \* number of gs.Scene() objects constructed so far
    teardowns,            \* per scene: number of cleanup calls made on it
    ctl_pc,               \* controller position: "idle" or inside start()/stop()
    ctl_op,               \* the call the controller is in, or returned from last
    init_msg,             \* start(): local msg
    stop_scene,           \* stop(): local scene
    ret,                  \* value returned by the last completed call
    call_pre,             \* manager state observed on entry to the current/last start() or stop()
    lock,                 \* ConsoleLogger.lock: None or the caller holding it
    callers,              \* the threads calling the console directly: [pc, op, entry, ret]
    history,              \* every append and clear applied to the console, in the order of effect
    max_messages,         \* ConsoleLogger.max_messages
    track,                \* AnalysisManager.track_position / track_velocity / track_energy
    rec,                  \* the thread inside update_tracking: [pc, objects]
    ana,                  \* the thread calling the other AnalysisManager methods
    late_steps            \* history, per observed worker: the scene.step() calls it has begun
                          \* since a stop() last cleared simulation_running while it was
                          \* alive (counted up to 2), -1 before any such stop()

vars == <<simulation_running, simulation_thread, scene, entities, entity_count,
          camera, recording, timestamps, position_history, velocity_history,
          energy_history, messages, threads, scene_count, teardowns,
          ctl_pc, ctl_op, init_msg, stop_scene, ret, call_pre, lock, callers, history,
          max_messages, track, rec, ana, late_steps>>

manager_vars == <<simulation_running, simulation_thread, scene, entities, entity_count,
                  camera, recording>>
tracker_vars == <<timestamps, position_history, velocity_history, energy_history>>
engine_vars == <<scene_count, teardowns>>
local_vars == <<init_msg, stop_scene>>
logger_vars == <<lock, callers, history, max_messages>>
analysis_vars == <<track, rec, ana>>

\* --------------------------------------------------------------- messages
MsgInitOk == "Simulation initialized successfully"
MsgInitError == "Error initializing simulation: <e>"
MsgStarted == "Simulation started successfully"
MsgStopped == "Simulation stopped"
MsgNoScene == "Error: No active simulation scene"
MsgNoMesh == "Error: No mesh file provided"
MsgUnknownType == "Error: Unknown object type <t>"
MsgCreated == "Created <t> (ID: <id>)"
MsgCreateError == "Error creating object: <e>"
MsgVisUpdated == "Visualization settings updated successfully"
MsgVisError == "Error updating visualization: <e>"
MsgExported == "Data exported successfully"
MsgExportOSError == "Error exporting data: <OSError>"
MsgExportValueError == "Error exporting data: <ValueError>"
MsgExportIndexError == "Error exporting data: <IndexError>"

\* The phrases of interest each literal of the code contains (Python's `in`).
Phrases(m) ==
    CASE m = MsgInitOk -> {"initialized successfully"}
      [] m = MsgInitError -> {"Error"}
      [] m = MsgStarted -> {"started successfully"}
      [] m = MsgStopped -> {"Simulation stopped"}
      [] m = MsgNoScene -> {"Error", "No active simulation"}
      [] m = MsgNoMesh -> {"Error"}
      [] m = MsgUnknownType -> {"Error"}
      [] m = MsgCreated -> {"Created"}
      [] m = MsgCreateError -> {"Error"}
      [] m = MsgVisUpdated -> {"updated successfully"}
      [] m = MsgVisError -> {"Error"}
      [] m = MsgExported -> {"exported successfully"}
      [] m = MsgExportOSError -> {"Error exporting data"}
      [] m = MsgExportValueError -> {"Error exporting data"}
      [] m = MsgExportIndexError -> {"Error exporting data"}
      [] OTHER -> {}

Contains(m, phrase) == phrase \in Phrases(m)

\* ---------------------------------------------------------------- console
Evict_Never(log) == log

Evict_DropsNewest(log) ==
    IF Len(log) > max_messages THEN SubSeq(log, 1, Len(log) - 1) ELSE log

\* ConsoleLogger.add_message, lines 17-18: drop the oldest entry when over capacity.
Evict(log) == IF Len(log) > max_messages THEN Tail(log) ELSE log

\* ConsoleLogger.add_message, lines 14-18: append, then evict; one critical section.
add_message(log, level) == Evict(Append(log, level))

RECURSIVE add_messages(_, _)
add_messages(log, levels) ==
    IF levels = <<>> THEN log
    ELSE add_messages(add_message(log, Head(levels)), Tail(levels))

console_clear_KeepsNewest ==
    IF messages = <<>> THEN <<>> ELSE <<messages[Len(messages)]>>

\* ConsoleLogger.clear
console_clear == <<>>

\* str.join: the items with the separator between each two of them, as a sequence
\* of pieces; the empty string is the empty sequence.
RECURSIVE Join(_, _)
Join(sep, items) ==
    IF items = <<>> THEN <<>>
    ELSE IF Len(items) = 1 THEN items
    ELSE <<Head(items), sep>> \o Join(sep, Tail(items))

\* ConsoleLogger.get_messages, line 29: what it returns for the entries it reads.
get_messages(log) == Join("\n", log)

ClearMark == "clear()"       \* how a clear() is written in history
Nothing == <<"None">>        \* Python's None where a rendering could be returned

\* A console caller outside any call.
IdleCaller == [pc |-> "idle", op |-> "none", entry |-> "", ret |-> Nothing]

\* ---------------------------------------------------------------- helpers
\* The scene ids: one more than MaxScenes, for the restart after a stop().
Scenes == 1..(MaxScenes + 1)

Workers == 1..Len(threads)

is_alive(t) == t # None /\ threads[t].pc # "done"

NewThread == [pc |-> "loop", frame_count |-> 0, sc |-> None]

Snapshot ==
    [running |-> simulation_running,
     alive |-> is_alive(simulation_thread),
     scene |-> scene,
     nthreads |-> Len(threads),
     populated |-> entity_count > 0 /\ recording]

NoReturn == [msg |-> "", status |-> "None"]

\* --------------------------------------------------------------- analysis
\* What update_tracking reads of its scene argument: scene.objects, each object
\* a body (position, velocity and mass attributes), an anchor (position and mass,
\* no velocity) or a marker (none of them).
Body == "body"
Anchor == "anchor"
Marker == "marker"
SceneArgs == {<<>>, <<Body>>, <<Body, Marker>>, <<Anchor, Body>>}

HasPosition(obj) == obj \in {Body, Anchor}     \* hasattr(obj, 'position')
HasVelocity(obj) == obj = Body                 \* hasattr(obj, 'velocity')
HasMass(obj) == obj \in {Body, Anchor}         \* hasattr(obj, 'mass')
HasKinetic(obj) == HasMass(obj) /\ HasVelocity(obj)
HasPotential(obj) == HasMass(obj) /\ HasPosition(obj)


\* update_tracking, lines 34-37: one position per object that has one.
Positions(objects) == [i \in 1..Len(SelectSeq(objects, HasPosition)) |-> "xyz"]

\* update_tracking, lines 41-44.
Velocities(objects) == [i \in 1..Len(SelectSeq(objects, HasVelocity)) |-> "xyz"]

\* calculate_kinetic_energy: the sum over the objects with mass and velocity, each
\* body contributing one unit.
calculate_kinetic_energy(objects) == Len(SelectSeq(objects, HasKinetic))

\* calculate_potential_energy: the sum over the objects with mass and position,
\* each body contributing two units.
calculate_potential_energy(objects) == 2 * Len(SelectSeq(objects, HasPotential))

\* update_tracking, lines 48-54.
EnergySample(objects) ==
    LET ke == calculate_kinetic_energy(objects)
        pe == calculate_potential_energy(objects)
    IN  [kinetic |-> ke, potential |-> pe, total |-> ke + pe]

ZeroEnergy == [kinetic |-> 0, potential |-> 0, total |-> 0]

AllOn == [position |-> TRUE, velocity |-> TRUE, energy |-> TRUE]

IdleRec == [pc |-> "idle", objects |-> <<>>]

\* The caller of export_data, get_current_energy, reset and
\* update_analysis_settings outside any call: k is the file export_data is at,
\* time the length of the time column it built, written the files it wrote.
IdleAna == [pc |-> "idle", op |-> "none", export |-> AllOn, k |-> 0, time |-> 0,
            written |-> {}, ret |-> "None", energy |-> ZeroEnergy]

\* ------------------------------------------------------------------- Init
\* ConsoleLogger.__init__: any capacity is taken as it is.
ConsoleLogger(capacity) == [messages |-> <<>>, max_messages |-> capacity, lock |-> None]

InitConsole(capacity) ==
    LET logger == ConsoleLogger(capacity)
    IN  /\ messages = logger.messages
        /\ max_messages = logger.max_messages
        /\ lock = logger.lock

\* The SimulationManager, its AnalysisManager and the callers' positions after
\* construction; the console is constructed by InitConsole.
InitSession ==
    /\ simulation_running = FALSE
    /\ simulation_thread = None
    /\ scene = None
    /\ entities = <<>>
    /\ entity_count = 0
    /\ camera = NoCamera
    /\ recording = FALSE
    /\ timestamps = <<>>
    /\ position_history = <<>>
    /\ velocity_history = <<>>
    /\ energy_history = <<>>
    /\ threads = <<>>
    /\ scene_count = 0
    /\ teardowns = [s \in Scenes |-> 0]
    /\ ctl_pc = "idle"
    /\ ctl_op = "none"
    /\ init_msg = ""
    /\ stop_scene = None
    /\ ret = NoReturn
    /\ call_pre = Snapshot
    /\ callers = [t \in 1..MaxCallers |-> IdleCaller]
    /\ history = <<>>
    /\ track = AllOn
    /\ rec = IdleRec
    /\ ana = IdleAna

\* console_logger.py, line 32, constructs the console with its default capacity.
Init == InitSession /\ InitConsole(MaxMessages) /\ late_steps = <<>>

\* ------------------------------------------------------------------ start
\* Where initialize_simulation can raise: gs.init / SimOptions ("init"), gs.Scene
\* ("scene"), scene.add_entity ("entity"), scene.build ("build"), or nowhere.
InitFailures == {"none", "init", "scene", "entity", "build"}

\* Levels initialize_simulation logs, in order, up to the failure point.
InitLevels(fail) ==
    LET backend == <<"system">>
        options == <<"success", "system", "success", "system">>
        created == <<"success", "system">>
        added == <<"success", "system", "success">>
        failed == <<"error", "error">>
    IN  CASE fail = "init" -> backend
          [] fail = "scene" -> backend \o options \o failed
          [] fail = "entity" -> backend \o options \o created \o failed
          [] OTHER -> backend \o options \o created \o added

\* start(), lines 323-331: reset trajectory data, clear the console, log the config.
\* There is no check of simulation_running.  The call is made while fewer than
\* `budget` scenes have been constructed.
StartCall(budget) ==
    /\ ctl_pc = "idle"
    /\ scene_count < budget
    /\ call_pre' = Snapshot
    /\ ctl_op' = "start"
    /\ messages' = add_messages(console_clear,
                                <<"system">> \o [i \in 1..NumConfigKeys |-> "config"])
    /\ ctl_pc' = "start_init"
    /\ UNCHANGED <<logger_vars, analysis_vars, late_steps, manager_vars, tracker_vars, threads, engine_vars, local_vars, ret>>

\* initialize_simulation(config), called at line 334.  self.scene is assigned as
\* soon as gs.Scene() returns, so a later failure leaves the new scene in place.
initialize_simulation(fail) ==
    /\ ctl_pc = "start_init"
    /\ messages' = add_messages(messages, InitLevels(fail))
    /\ IF fail \in {"init", "scene"}
       THEN UNCHANGED <<scene, scene_count>>
       ELSE /\ scene_count' = scene_count + 1
            /\ scene' = scene_count + 1
    /\ init_msg' = IF fail = "none" THEN MsgInitOk ELSE MsgInitError
    /\ ctl_pc' = "start_check"
    /\ UNCHANGED <<logger_vars, analysis_vars, late_steps, simulation_running, simulation_thread, entities, entity_count,
                   camera, recording, tracker_vars, threads, teardowns,
                   ctl_op, stop_scene, ret, call_pre>>

InitFailed_Never(msg) == FALSE

\* start(), line 336: the test that decides between the error return and the spawn.
InitFailed(msg) == Contains(msg, "Error")

\* start(), lines 336-347: error return, or set the flag and spawn the worker.
StartFinish ==
    /\ ctl_pc = "start_check"
    /\ IF InitFailed(init_msg)
       THEN /\ messages' = add_messages(messages, <<"error", "error">>)
            /\ ret' = [msg |-> init_msg, status |-> "None"]
            /\ UNCHANGED <<simulation_running, simulation_thread, threads>>
       ELSE /\ simulation_running' = TRUE
            /\ threads' = Append(threads, NewThread)
            /\ simulation_thread' = Len(threads) + 1
            /\ messages' = add_message(messages, "success")
            /\ ret' = [msg |-> init_msg, status |-> MsgStarted]
    /\ init_msg' = ""
    /\ ctl_pc' = "idle"
    /\ UNCHANGED <<logger_vars, analysis_vars, late_steps, scene, entities, entity_count, camera, recording, tracker_vars,
                   engine_vars, ctl_op, stop_scene, call_pre>>

\* ------------------------------------------------------------------- stop
\* stop(), lines 351-352: log, clear the flag.
StopCall ==
    /\ ctl_pc = "idle"
    /\ call_pre' = Snapshot
    /\ ctl_op' = "stop"
    /\ messages' = add_message(messages, "system")
    /\ simulation_running' = FALSE
    /\ late_steps' = [w \in DOMAIN late_steps |->
                         IF w \in Workers /\ is_alive(w) THEN 0 ELSE late_steps[w]]
    /\ ctl_pc' = "stop_join"
    /\ UNCHANGED <<logger_vars, analysis_vars, simulation_thread, scene, entities, entity_count, camera, recording,
                   tracker_vars, threads, engine_vars, local_vars, ret>>

\* stop(), lines 353-360 (and 384-386 when there is no scene): join() returns once
\* the thread in simulation_thread has finished; then the scene is taken.
StopJoin ==
    /\ ctl_pc = "stop_join"
    /\ ~is_alive(simulation_thread)
    /\ IF scene # None
       THEN /\ stop_scene' = scene
            /\ scene' = None
            /\ ctl_pc' = "stop_cleanup"
            /\ UNCHANGED <<messages, ret>>
       ELSE /\ messages' = add_message(messages, "success")
            /\ ret' = [msg |-> MsgStopped, status |-> "None"]
            /\ ctl_pc' = "idle"
            /\ UNCHANGED <<scene, stop_scene>>
    /\ UNCHANGED <<logger_vars, analysis_vars, late_steps, simulation_running, simulation_thread, entities, entity_count,
                   camera, recording, tracker_vars, threads, engine_vars,
                   ctl_op, init_msg, call_pre>>

ClearResources_KeepsRegistry ==
    /\ camera' = NoCamera
    /\ recording' = FALSE
    /\ UNCHANGED <<entities, entity_count>>

ClearResources_KeepsCount ==
    /\ entities' = <<>>
    /\ camera' = NoCamera
    /\ recording' = FALSE
    /\ UNCHANGED entity_count

\* stop(), lines 378-382: drop the registry, the camera and the recording state.
ClearResources ==
    /\ entities' = <<>>
    /\ entity_count' = 0
    /\ camera' = NoCamera
    /\ recording' = FALSE

\* stop(), lines 362-386: one cleanup call on the taken scene (its exception is
\* caught and logged as a warning), clear the other resources, return.
StopCleanup(cleanup_raises) ==
    /\ ctl_pc = "stop_cleanup"
    /\ teardowns' = [teardowns EXCEPT ![stop_scene] = @ + 1]
    /\ messages' = add_messages(messages,
                       <<IF cleanup_raises THEN "warning" ELSE "success", "success">>)
    /\ ClearResources
    /\ ret' = [msg |-> MsgStopped, status |-> "None"]
    /\ stop_scene' = None
    /\ ctl_pc' = "idle"
    /\ UNCHANGED <<logger_vars, analysis_vars, late_steps, simulation_running, simulation_thread, scene, tracker_vars, threads,
                   scene_count, ctl_op, init_msg, call_pre>>

\* ---------------------------------------------------------- create_object
ObjectTypes == {"Mesh", "Cone"}      \* "Cone" is no type the code knows
KnownTypes == {"Sphere", "Box", "Capsule", "Plane", "Mesh"}
CreateFailures == {"none", "add_entity", "collision"}

Lower(obj_type) ==
    CASE obj_type = "Sphere" -> "sphere"
      [] obj_type = "Box" -> "box"
      [] obj_type = "Capsule" -> "capsule"
      [] obj_type = "Plane" -> "plane"
      [] obj_type = "Mesh" -> "mesh"
      [] OTHER -> obj_type

EntityId_IgnoresCount(obj_type, count) == <<Lower(obj_type), 1>>

\* create_object, line 184: the id '{type}_{count}' as the pair of its two parts.
EntityId(obj_type, count) == <<Lower(obj_type), count>>

create_object_StoresBeforeCollision(obj_type, mesh_file, fail) ==
    /\ ctl_pc = "idle"
    /\ obj_type # "Mesh" => mesh_file                        \* only a Mesh reads mesh_file
    /\ (scene = None \/ ~mesh_file \/ obj_type \notin KnownTypes) => fail = "none"
                                                            \* the engine is not reached
    /\ ctl_op' = "create_object"
    /\ IF scene = None
       THEN /\ ret' = [msg |-> MsgNoScene, status |-> "None"]
            /\ UNCHANGED <<entities, entity_count, messages>>
       ELSE IF obj_type = "Mesh" /\ ~mesh_file
       THEN /\ ret' = [msg |-> MsgNoMesh, status |-> "None"]
            /\ messages' = add_message(messages, "system")
            /\ UNCHANGED <<entities, entity_count>>
       ELSE IF obj_type \notin KnownTypes
       THEN /\ ret' = [msg |-> MsgUnknownType, status |-> "None"]
            /\ messages' = add_message(messages, "system")
            /\ UNCHANGED <<entities, entity_count>>
       ELSE IF fail = "add_entity"
       THEN /\ ret' = [msg |-> MsgCreateError, status |-> "None"]
            /\ messages' = add_messages(messages, <<"system", "error">>)
            /\ UNCHANGED <<entities, entity_count>>
       ELSE IF fail = "collision"
       THEN /\ ret' = [msg |-> MsgCreateError, status |-> "None"]
            /\ messages' = add_messages(messages, <<"system", "success", "error">>)
            /\ entity_count' = entity_count + 1
            /\ entities' = (EntityId(obj_type, entity_count') :> Entity) @@ entities
       ELSE /\ entity_count' = entity_count + 1
            /\ entities' = (EntityId(obj_type, entity_count') :> Entity) @@ entities
            /\ messages' = add_messages(messages, <<"system", "success", "success">>)
            /\ ret' = [msg |-> MsgCreated, status |-> "None"]
    /\ UNCHANGED <<logger_vars, analysis_vars, late_steps, simulation_running, simulation_thread, scene, camera, recording,
                   tracker_vars, threads, engine_vars, ctl_pc, local_vars, call_pre>>

\* create_object(obj_config), lines 105-193.  The only guard is self.scene.
create_object(obj_type, mesh_file, fail) ==
    /\ ctl_pc = "idle"
    /\ obj_type # "Mesh" => mesh_file                        \* only a Mesh reads mesh_file
    /\ (scene = None \/ ~mesh_file \/ obj_type \notin KnownTypes) => fail = "none"
                                                            \* the engine is not reached
    /\ ctl_op' = "create_object"
    /\ IF scene = None
       THEN /\ ret' = [msg |-> MsgNoScene, status |-> "None"]
            /\ UNCHANGED <<entities, entity_count, messages>>
       ELSE IF obj_type = "Mesh" /\ ~mesh_file
       THEN /\ ret' = [msg |-> MsgNoMesh, status |-> "None"]
            /\ messages' = add_message(messages, "system")
            /\ UNCHANGED <<entities, entity_count>>
       ELSE IF obj_type \notin KnownTypes
       THEN /\ ret' = [msg |-> MsgUnknownType, status |-> "None"]
            /\ messages' = add_message(messages, "system")
            /\ UNCHANGED <<entities, entity_count>>
       ELSE IF fail = "add_entity"
       THEN /\ ret' = [msg |-> MsgCreateError, status |-> "None"]
            /\ messages' = add_messages(messages, <<"system", "error">>)
            /\ UNCHANGED <<entities, entity_count>>
       ELSE IF fail = "collision"
       THEN /\ ret' = [msg |-> MsgCreateError, status |-> "None"]
            /\ messages' = add_messages(messages, <<"system", "success", "error">>)
            /\ UNCHANGED <<entities, entity_count>>
       ELSE /\ entity_count' = entity_count + 1
            /\ entities' = (EntityId(obj_type, entity_count') :> Entity) @@ entities
            /\ messages' = add_messages(messages, <<"system", "success", "success">>)
            /\ ret' = [msg |-> MsgCreated, status |-> "None"]
    /\ UNCHANGED <<logger_vars, analysis_vars, late_steps, simulation_running, simulation_thread, scene, camera, recording,
                   tracker_vars, threads, engine_vars, ctl_pc, local_vars, call_pre>>

\* ---------------------------------------------------- update_visualization
VisFailures == {"none", "renderer", "camera", "start_recording", "save"}

\* update_visualization(vis_config), lines 195-266, with stop_recording (268-277)
\* inlined: a failed save is logged inside stop_recording and leaves recording set.
update_visualization(recording_enabled, fail) ==
    /\ ctl_pc = "idle"
    /\ scene = None => (fail = "none" /\ recording_enabled)  \* vis_config is not read
    /\ fail = "camera" => camera = NoCamera                  \* add_camera is not called again
    /\ fail = "start_recording" => (recording_enabled /\ ~recording)
    /\ fail = "save" => (~recording_enabled /\ recording)
    /\ ctl_op' = "update_visualization"
    /\ IF scene = None
       THEN /\ ret' = [msg |-> MsgNoScene, status |-> "None"]
            /\ UNCHANGED <<camera, recording, messages>>
       ELSE IF fail \in {"renderer", "camera"}
       THEN /\ ret' = [msg |-> MsgVisError, status |-> "None"]
            /\ messages' = add_message(messages, "error")
            /\ UNCHANGED <<camera, recording>>
       ELSE /\ camera' = IF camera = NoCamera THEN Camera ELSE camera
            /\ IF recording_enabled /\ ~recording
               THEN IF fail = "start_recording"
                    THEN /\ ret' = [msg |-> MsgVisError, status |-> "None"]
                         /\ messages' = add_message(messages, "error")
                         /\ UNCHANGED recording
                    ELSE /\ recording' = TRUE
                         /\ messages' = add_messages(messages, <<"success", "success">>)
                         /\ ret' = [msg |-> MsgVisUpdated, status |-> "None"]
               ELSE IF ~recording_enabled /\ recording
               THEN /\ recording' = (fail = "save")
                    /\ messages' = add_messages(messages,
                           <<IF fail = "save" THEN "error" ELSE "success", "success">>)
                    /\ ret' = [msg |-> MsgVisUpdated, status |-> "None"]
               ELSE /\ messages' = add_message(messages, "success")
                    /\ ret' = [msg |-> MsgVisUpdated, status |-> "None"]
                    /\ UNCHANGED recording
    /\ UNCHANGED <<logger_vars, analysis_vars, late_steps, simulation_running, simulation_thread, scene, entities, entity_count,
                   tracker_vars, threads, engine_vars, ctl_pc, local_vars, call_pre>>

\* -------------------------------------------------------- simulate_frames
LoopCondition_IgnoresFlag == scene # None

\* The loop condition of line 285.
LoopCondition == simulation_running /\ scene # None

SetThread(w, t) == threads' = [threads EXCEPT ![w] = t]

ExitedThread_Retries == [pc |-> "loop", frame_count |-> 0, sc |-> None]

\* A thread whose simulate_frames has returned (its locals are gone).
ExitedThread == [pc |-> "done", frame_count |-> 0, sc |-> None]

WorkerLoop_ClearsRegistry(w) ==
    /\ threads[w].pc = "loop"
    /\ IF LoopCondition
       THEN SetThread(w, [threads[w] EXCEPT !.pc = "try"]) /\ UNCHANGED <<entities, entity_count>>
       ELSE SetThread(w, ExitedThread) /\ entities' = <<>> /\ entity_count' = 0
    /\ UNCHANGED <<logger_vars, analysis_vars, late_steps, simulation_running, simulation_thread, scene, camera, recording,
                   tracker_vars, messages, engine_vars,
                   ctl_pc, ctl_op, local_vars, ret, call_pre>>

\* simulate_frames, line 285: evaluate the loop condition (or fall out of the loop).
WorkerLoop(w) ==
    /\ threads[w].pc = "loop"
    /\ IF LoopCondition
       THEN SetThread(w, [threads[w] EXCEPT !.pc = "try"])
       ELSE SetThread(w, ExitedThread)
    /\ UNCHANGED <<logger_vars, analysis_vars, late_steps, manager_vars, tracker_vars, messages, engine_vars,
                   ctl_pc, ctl_op, local_vars, ret, call_pre>>

\* simulate_frames, line 288: read self.scene again and enter scene.step(); on None
\* the attribute lookup raises, which lines 317-319 log before leaving the loop.
WorkerStepBegin(w) ==
    /\ threads[w].pc = "try"
    /\ IF scene = None
       THEN /\ SetThread(w, ExitedThread)
            /\ messages' = add_message(messages, "error")
            /\ UNCHANGED late_steps
       ELSE /\ SetThread(w, [threads[w] EXCEPT !.pc = "stepping", !.sc = scene])
            /\ late_steps' = IF w \in DOMAIN late_steps /\ late_steps[w] \in {0, 1}
                             THEN [late_steps EXCEPT ![w] = @ + 1]
                             ELSE late_steps
            /\ UNCHANGED messages
    /\ UNCHANGED <<logger_vars, analysis_vars, manager_vars, tracker_vars, engine_vars,
                   ctl_pc, ctl_op, local_vars, ret, call_pre>>

\* Where update_tracking can raise: at the first read of scene.objects (line 35), or
\* in the energy sums (scene.gravity_x and the masses, lines 48-49).
TrackFailures == {"none", "position", "energy"}

\* AnalysisManager.update_tracking(scene, timestamp), lines 26-54, all three
\* tracking flags at their initial True.  The timestamp is appended first.
update_tracking(s, timestamp, fail) ==
    IF s = None
    THEN UNCHANGED tracker_vars
    ELSE /\ timestamps' = Append(timestamps, timestamp)
         /\ position_history' = IF fail = "position" THEN position_history
                                ELSE Append(position_history, Sample)
         /\ velocity_history' = IF fail = "position" THEN velocity_history
                                ELSE Append(velocity_history, Sample)
         /\ energy_history' = IF fail = "none" THEN Append(energy_history, Sample)
                              ELSE energy_history

\* simulate_frames, lines 288-319: scene.step() returns or raises; after a return
\* the sample of self.scene is recorded at the elapsed time (counted in
\* iterations), a status line is logged once a second has passed, and the worker
\* sleeps.  Any exception is logged and ends the loop.
WorkerStepEnd(w, step_raises, fail, second_elapsed) ==
    /\ threads[w].pc = "stepping"
    /\ step_raises => fail = "none"                          \* update_tracking is not reached
    /\ (step_raises \/ fail # "none") => ~second_elapsed     \* the status line is not reached
    /\ IF step_raises
       THEN /\ SetThread(w, ExitedThread)
            /\ messages' = add_message(messages, "error")
            /\ UNCHANGED tracker_vars
       ELSE /\ update_tracking(scene, threads[w].frame_count + 1, fail)
            /\ IF scene # None /\ fail # "none"
               THEN /\ SetThread(w, ExitedThread)
                    /\ messages' = add_message(messages, "error")
               ELSE /\ SetThread(w, [threads[w] EXCEPT !.pc = "loop", !.sc = None,
                                                       !.frame_count = @ + 1])
                    /\ messages' = IF second_elapsed THEN add_message(messages, "status")
                                   ELSE messages
    /\ UNCHANGED <<logger_vars, analysis_vars, late_steps, manager_vars, engine_vars, ctl_pc, ctl_op, local_vars, ret, call_pre>>

\* One step of worker w; it begins no iteration once the tracker holds `budget`
\* timestamps.
Worker(w, budget) ==
    \/ (LoopCondition => Len(timestamps) < budget) /\ WorkerLoop(w)
    \/ WorkerStepBegin(w)
    \/ \E step_raises \in BOOLEAN, fail \in TrackFailures, second_elapsed \in BOOLEAN :
           WorkerStepEnd(w, step_raises, fail, second_elapsed)

\* ------------------------------------------------------------------- Next
StopContinue ==
    \/ StopJoin
    \/ \E cleanup_raises \in BOOLEAN : StopCleanup(cleanup_raises)

\* A create_object call made while fewer than `budget` entities are registered.
CreateObject(budget) ==
    /\ entity_count < budget
    /\ \E obj_type \in ObjectTypes, mesh_file \in BOOLEAN, fail \in CreateFailures :
           create_object(obj_type, mesh_file, fail)

Controller ==
    \/ StartCall(MaxScenes)
    \/ \E fail \in InitFailures : initialize_simulation(fail)
    \/ StartFinish
    \/ StopCall
    \/ StopContinue
    \/ CreateObject(MaxEntities)
    \/ \E recording_enabled \in BOOLEAN, fail \in VisFailures :
           update_visualization(recording_enabled, fail)

Next ==
    \/ Controller
    \/ \E w \in Workers : Worker(w, MaxSamples)

Spec == Init /\ [][Next]_vars

\* The session lifecycle alone: start(), stop() and the workers.  create_object and
\* update_visualization are left out; they run only between two lifecycle calls and
\* write nothing but entities, entity_count, camera and recording, which neither
\* stop()'s control flow nor the worker loop reads.
Lifecycle ==
    \/ StartCall(MaxScenes)
    \/ \E fail \in InitFailures : initialize_simulation(fail)
    \/ StartFinish
    \/ StopCall
    \/ StopContinue

LifecycleNext ==
    \/ Lifecycle
    \/ \E w \in Workers : Worker(w, MaxSamples)

\* Threads are scheduled fairly and every scene.step() call returns; a stop() call
\* that was entered keeps executing.
FairLifecycleSpec ==
    /\ Init /\ [][LifecycleNext]_vars
    /\ \A w \in 1..MaxScenes : WF_vars(w \in Workers /\ Worker(w, MaxSamples))
    /\ WF_vars(StopContinue)

\* The registry: the lifecycle with create_object calls, up to MaxRegistered
\* entities in a session.
RegistryNext ==
    \/ Lifecycle
    \/ CreateObject(MaxRegistered)
    \/ \E w \in Workers : Worker(w, MaxSamples)

RegistrySpec == Init /\ [][RegistryNext]_vars

\* The tracker: the lifecycle with workers that record up to MaxTracked samples.
TrackerNext ==
    \/ Lifecycle
    \/ \E w \in Workers : Worker(w, MaxTracked)

TrackerSpec == Init /\ [][TrackerNext]_vars

\* Cancellation: the lifecycle with one more start() than scenes elsewhere, so
\* that a session can be started, started again, stopped and started once more,
\* with every worker's steps after a stop() counted.
CancelInit ==
    InitSession /\ InitConsole(MaxMessages) /\ late_steps = [w \in Scenes |-> -1]

CancelNext ==
    \/ StartCall(MaxScenes + 1)
    \/ \E fail \in InitFailures : initialize_simulation(fail)
    \/ StartFinish
    \/ StopCall
    \/ StopContinue
    \/ \E w \in Workers : Worker(w, MaxTracked)

CancelSpec == CancelInit /\ [][CancelNext]_vars

\* ---------------------------------------------------------------- console
\* Threads that call the process-wide console directly, as the UI callbacks and
\* the logger's tests do.  A critical section that reads or writes the list once
\* is one step; add_message is split where its section holds the list over
\* capacity and where it leaves the lock before rendering.
Callers == 1..MaxCallers

session_vars == <<manager_vars, tracker_vars, threads, engine_vars,
                  ctl_pc, ctl_op, local_vars, ret, call_pre, max_messages, analysis_vars,
                  late_steps>>

SetCaller(t, c) == callers' = [callers EXCEPT ![t] = c]

Acquirable_Always == TRUE

\* `with self.lock`: entered only while no thread holds the lock.
Acquirable == lock = None

\* add_message, line 15: the formatted entry of the k-th message handed to the
\* console (default message_type, the time of day left symbolic).
Entry(k) == "[<time>] [INFO] Message " \o ToString(k)

Appends(h) == Cardinality({i \in 1..Len(h) : h[i] # ClearMark})

\* add_message, lines 13-15: format the entry, take the lock, append.
AddAppend(t) ==
    /\ callers[t].pc = "idle"
    /\ Len(history) < MaxLogged
    /\ Acquirable
    /\ lock' = t
    /\ LET entry == Entry(Appends(history) + 1)
       IN  /\ messages' = Append(messages, entry)
           /\ history' = Append(history, entry)
           /\ SetCaller(t, [pc |-> "evict", op |-> "add", entry |-> entry,
                            ret |-> Nothing])
    /\ UNCHANGED session_vars

\* add_message, lines 17-18: evict when over capacity, leave the lock.
AddEvict(t) ==
    /\ callers[t].pc = "evict"
    /\ messages' = Evict(messages)
    /\ lock' = None
    /\ SetCaller(t, [callers[t] EXCEPT !.pc = "render"])
    /\ UNCHANGED <<history, session_vars>>

\* add_message, line 19: return self.get_messages(), a second critical section.
AddReturn(t) ==
    /\ callers[t].pc = "render"
    /\ Acquirable
    /\ SetCaller(t, [callers[t] EXCEPT !.pc = "idle", !.ret = get_messages(messages)])
    /\ UNCHANGED <<lock, messages, history, session_vars>>

\* clear(), lines 21-24.
Clear(t) ==
    /\ callers[t].pc = "idle"
    /\ Len(history) < MaxLogged
    /\ Acquirable
    /\ messages' = console_clear
    /\ history' = Append(history, ClearMark)
    /\ SetCaller(t, [pc |-> "idle", op |-> "clear", entry |-> "", ret |-> Nothing])
    /\ UNCHANGED <<lock, session_vars>>

\* get_messages(), lines 26-29, called on its own.
GetMessages(t) ==
    /\ callers[t].pc = "idle"
    /\ Acquirable
    /\ SetCaller(t, [pc |-> "idle", op |-> "get", entry |-> "",
                     ret |-> get_messages(messages)])
    /\ UNCHANGED <<lock, messages, history, session_vars>>

LoggerNext ==
    \E t \in Callers :
        \/ AddAppend(t)
        \/ AddEvict(t)
        \/ AddReturn(t)
        \/ Clear(t)
        \/ GetMessages(t)

LoggerSpec == Init /\ [][LoggerNext]_vars

\* The console constructed with any capacity, below 1 included, and then used.
Capacities == -1..MaxMessages

ConstructInit ==
    InitSession /\ late_steps = <<>> /\ \E capacity \in Capacities : InitConsole(capacity)

ConstructSpec == ConstructInit /\ [][LoggerNext]_vars

\* --------------------------------------------------------------- analysis
\* AnalysisManager on its own: one thread inside update_tracking, split at each
\* append, and one thread calling export_data (split at each file, between the
\* time column and the data columns), get_current_energy, reset and
\* update_analysis_settings.  The class holds no lock.
outside_analysis == <<manager_vars, messages, threads, engine_vars,
                      ctl_pc, ctl_op, local_vars, ret, call_pre, logger_vars, late_steps>>

\* update_tracking, lines 28-31, for a scene that is not None: append the
\* timestamp (the calls are stamped 1, 2, ...).
TrackBegin(objects) ==
    /\ rec.pc = "idle"
    /\ Len(timestamps) < MaxRecorded
    /\ timestamps' = Append(timestamps, Len(timestamps) + 1)
    /\ rec' = [pc |-> "position", objects |-> objects]
    /\ UNCHANGED <<position_history, velocity_history, energy_history,
                   track, ana, outside_analysis>>

\* update_tracking, lines 33-38; the read of scene.objects can raise.
TrackPosition(raises) ==
    /\ rec.pc = "position"
    /\ ~track.position => ~raises                  \* scene.objects is not read
    /\ IF ~track.position
       THEN rec' = [rec EXCEPT !.pc = "velocity"] /\ UNCHANGED position_history
       ELSE IF raises
       THEN rec' = IdleRec /\ UNCHANGED position_history
       ELSE /\ position_history' = Append(position_history, Positions(rec.objects))
            /\ rec' = [rec EXCEPT !.pc = "velocity"]
    /\ UNCHANGED <<timestamps, velocity_history, energy_history,
                   track, ana, outside_analysis>>

\* update_tracking, lines 40-45.
TrackVelocity ==
    /\ rec.pc = "velocity"
    /\ velocity_history' = IF track.velocity
                           THEN Append(velocity_history, Velocities(rec.objects))
                           ELSE velocity_history
    /\ rec' = [rec EXCEPT !.pc = "energy"]
    /\ UNCHANGED <<timestamps, position_history, energy_history,
                   track, ana, outside_analysis>>

\* update_tracking, lines 47-54; the energy sums can raise (scene.gravity_x).
TrackEnergy(raises) ==
    /\ rec.pc = "energy"
    /\ ~track.energy => ~raises                    \* the sums are not computed
    /\ energy_history' = IF track.energy /\ ~raises
                         THEN Append(energy_history, EnergySample(rec.objects))
                         ELSE energy_history
    /\ rec' = IdleRec
    /\ UNCHANGED <<timestamps, position_history, velocity_history,
                   track, ana, outside_analysis>>

Files == <<"positions", "velocities", "energy">>

Wanted_Always(k) == k \in 1..Len(Files)

\* export_data, lines 154, 165, 176: the flag and the history of file k.
Wanted(k) ==
    CASE k = 1 -> ana.export.position
      [] k = 2 -> ana.export.velocity
      [] k = 3 -> ana.export.energy

History(k) ==
    CASE k = 1 -> position_history
      [] k = 2 -> velocity_history
      [] k = 3 -> energy_history

ExportError(exc) ==
    CASE exc = "OSError" -> MsgExportOSError
      [] exc = "ValueError" -> MsgExportValueError
      [] exc = "IndexError" -> MsgExportIndexError

Handled_OnlyOSError(exc) == exc = "OSError"

\* export_data, line 186: `except Exception` takes every exception raised here.
Handled(exc) == exc \in {"OSError", "ValueError", "IndexError"}

\* export_data, lines 186-187: an exception ends the call with its message, or
\* leaves the call if it is not handled.
ExportRaise(call, exc) ==
    ana' = IF Handled(exc)
           THEN [call EXCEPT !.pc = "idle", !.k = 0, !.time = 0, !.ret = ExportError(exc)]
           ELSE [call EXCEPT !.pc = "raised", !.k = 0, !.time = 0]

\* export_data: on to the next file, or line 185 after the last.
ExportAdvance(call) ==
    ana' = IF call.k = Len(Files)
           THEN [call EXCEPT !.pc = "idle", !.k = 0, !.time = 0, !.ret = MsgExported]
           ELSE [call EXCEPT !.pc = "check", !.k = @ + 1, !.time = 0]

\* export_data(path, prefix, flags), lines 151-152.
export_data(export_position, export_velocity, export_energy, makedirs_raises) ==
    /\ ana.pc = "idle"
    /\ LET call == [IdleAna EXCEPT !.op = "export_data",
                                   !.export = [position |-> export_position,
                                               velocity |-> export_velocity,
                                               energy |-> export_energy]]
       IN  IF makedirs_raises THEN ExportRaise(call, "OSError")
           ELSE ana' = [call EXCEPT !.pc = "check", !.k = 1]
    /\ UNCHANGED <<tracker_vars, track, rec, outside_analysis>>

\* export_data, lines 154-156 (165-167, 176-178): test the flag and the history,
\* build the time column from the timestamps.
ExportCheck ==
    /\ ana.pc = "check"
    /\ IF Wanted(ana.k) /\ History(ana.k) # <<>>
       THEN ana' = [ana EXCEPT !.pc = "frame", !.time = Len(timestamps)]
       ELSE ExportAdvance(ana)
    /\ UNCHANGED <<tracker_vars, track, rec, outside_analysis>>

\* What building the data columns of file k on a time column of n rows raises:
\* for positions and velocities each column is collected first (sample[i] of
\* every sample, i below the length of the first sample) and then assigned; the
\* assignment to a frame of n > 0 rows needs n values.
FrameError(k, n, hist) ==
    LET width == Len(hist[1])
        short(i) == \E r \in 1..Len(hist) : Len(hist[r]) < i
    IN  IF k = Len(Files)
        THEN IF n # 0 /\ Len(hist) # n THEN "ValueError" ELSE "none"
        ELSE IF width = 0 THEN "none"
        ELSE IF short(1) THEN "IndexError"
        ELSE IF n # 0 /\ Len(hist) # n THEN "ValueError"
        ELSE IF short(width) THEN "IndexError"
        ELSE "none"

\* The rows to_csv writes for file k when the frame is built without error: the
\* time column, then for positions and velocities the columns object_1 ..
\* object_width of every sample, width being the length of the first sample
\* (line 158), and for the energy file the three energy columns.
CsvRows(k, time, hist) ==
    LET width == Len(hist[1])
    IN  [r \in 1..Len(hist) |->
            <<time[r]>> \o
            IF k = Len(Files)
            THEN <<hist[r].kinetic, hist[r].potential, hist[r].total>>
            ELSE SubSeq(hist[r], 1, width)]

\* export_data, lines 158-163 (169-174, 179-183): build the data columns from
\* the history as it is now and write the file.
ExportFrame(write_raises) ==
    /\ ana.pc = "frame"
    /\ LET exc == FrameError(ana.k, ana.time, History(ana.k))
       IN  /\ exc # "none" => ~write_raises       \* to_csv is not reached
           /\ IF exc # "none" THEN ExportRaise(ana, exc)
              ELSE IF write_raises THEN ExportRaise(ana, "OSError")
              ELSE ExportAdvance([ana EXCEPT !.written = @ \cup {Files[ana.k]}])
    /\ UNCHANGED <<tracker_vars, track, rec, outside_analysis>>

CurrentEnergy_First(hist) == IF hist = <<>> THEN ZeroEnergy ELSE hist[1]

\* get_current_energy, lines 142-144, as a function of the energy history.
CurrentEnergy(hist) == IF hist = <<>> THEN ZeroEnergy ELSE hist[Len(hist)]

get_current_energy ==
    /\ ana.pc = "idle"
    /\ ana' = [IdleAna EXCEPT !.op = "get_current_energy",
                              !.energy = CurrentEnergy(energy_history)]
    /\ UNCHANGED <<tracker_vars, track, rec, outside_analysis>>

reset_KeepsTimestamps ==
    /\ ana.pc = "idle"
    /\ position_history' = <<>>
    /\ velocity_history' = <<>>
    /\ energy_history' = <<>>
    /\ ana' = [IdleAna EXCEPT !.op = "reset"]
    /\ UNCHANGED <<timestamps, track, rec, outside_analysis>>

\* reset(), lines 189-194.
reset ==
    /\ ana.pc = "idle"
    /\ position_history' = <<>>
    /\ velocity_history' = <<>>
    /\ energy_history' = <<>>
    /\ timestamps' = <<>>
    /\ ana' = [IdleAna EXCEPT !.op = "reset"]
    /\ UNCHANGED <<track, rec, outside_analysis>>

\* SimulationManager.update_analysis_settings, lines 412-418.
update_analysis_settings(track_position, track_velocity, track_energy) ==
    /\ ana.pc = "idle"
    /\ track' = [position |-> track_position, velocity |-> track_velocity,
                 energy |-> track_energy]
    /\ ana' = [IdleAna EXCEPT !.op = "update_analysis_settings"]
    /\ UNCHANGED <<tracker_vars, rec, outside_analysis>>

\* One thread making the calls one after the other, any scene, any flags, any
\* failure of the engine or the file system.
AnalysisNext ==
    \/ ana.pc = "idle" /\ \E objects \in SceneArgs : TrackBegin(objects)
    \/ \E raises \in BOOLEAN : TrackPosition(raises)
    \/ TrackVelocity
    \/ \E raises \in BOOLEAN : TrackEnergy(raises)
    \/ rec.pc = "idle" /\ \E p, v, e, makedirs_raises \in BOOLEAN :
                              export_data(p, v, e, makedirs_raises)
    \/ ExportCheck
    \/ \E write_raises \in BOOLEAN : ExportFrame(write_raises)
    \/ rec.pc = "idle" /\ get_current_energy
    \/ rec.pc = "idle" /\ reset
    \/ rec.pc = "idle" /\ \E p, v, e \in BOOLEAN : update_analysis_settings(p, v, e)

AnalysisSpec == Init /\ [][AnalysisNext]_vars

\* The worker recording one-body scenes with every tracking flag on while the
\* controller exports; nothing raises in the engine or the file system.
ExportRaceNext ==
    \/ TrackBegin(<<Body>>)
    \/ TrackPosition(FALSE)
    \/ TrackVelocity
    \/ TrackEnergy(FALSE)
    \/ \E p, v, e \in BOOLEAN : export_data(p, v, e, FALSE)
    \/ ExportCheck
    \/ ExportFrame(FALSE)

ExportRaceSpec == Init /\ [][ExportRaceNext]_vars

\* ================================================================= claims
Last(log) == log[Len(log)]
Returned(op) == ctl_pc = "idle" /\ ctl_op = op
Alive == {w \in Workers : threads[w].pc # "done"}

\* C1: a start() call entered while simulation_running is true and the worker is
\* alive returns an 'already running' result, leaves the scene in place and spawns
\* no second worker.
C1_StartWhileRunningRejected ==
    (Returned("start") /\ call_pre.running /\ call_pre.alive) =>
        /\ Contains(ret.msg, "already running")
        /\ scene = call_pre.scene
        /\ Len(threads) = call_pre.nthreads

\* C2: at most one worker thread executing simulate_frames is alive at any time.
C2_AtMostOneWorkerAlive == Cardinality(Alive) <= 1

\* C3: once stop() has taken the scene for teardown (or has torn it down), no worker
\* is inside scene.step() on that scene.
C3_NoStepDuringTeardown ==
    \A w \in Workers :
        threads[w].pc = "stepping" =>
            /\ ~(ctl_pc = "stop_cleanup" /\ stop_scene = threads[w].sc)
            /\ teardowns[threads[w].sc] = 0

\* C4: no scene is torn down twice, and once a stop() call has returned every scene
\* constructed so far has been torn down exactly once.
C4_TeardownExactlyOnce ==
    /\ \A s \in 1..MaxScenes : teardowns[s] <= 1
    /\ Returned("stop") => \A s \in 1..scene_count : teardowns[s] = 1

\* C5: whenever no start() or stop() call is in progress, the scene is non-None if
\* and only if simulation_running is true.
C5_SceneIffRunning ==
    ctl_pc = "idle" => ((scene # None) <=> simulation_running)

\* C6: every stop() call that was entered eventually returns (threads are scheduled
\* fairly, every scene.step() call returns).
C6_StopReturns == (ctl_op = "stop" /\ ctl_pc # "idle") ~> (ctl_pc = "idle")

\* C6 witness: a stop() call has returned that was entered while its worker was alive.
C6_StopReturnedAfterLiveWorker ==
    Returned("stop") /\ call_pre.running /\ call_pre.alive

\* C7: when initialisation has failed, the returning step of start() hands back the
\* error message with a None status, has logged an error entry, and the call has
\* spawned no thread and left simulation_running as it found it.
C7_InitFailureSpawnsNothing ==
    [][(ctl_pc = "start_check" /\ init_msg = MsgInitError /\ ctl_pc' = "idle") =>
          /\ ret' = [msg |-> MsgInitError, status |-> "None"]
          /\ messages' # <<>> /\ Last(messages') = "error"
          /\ threads' = threads /\ Len(threads') = call_pre.nthreads
          /\ simulation_thread' = simulation_thread
          /\ simulation_running' = call_pre.running]_vars

\* C7 witness: start() has returned an initialisation error after the scene had
\* already been constructed.
C7_FailedStartReturned ==
    /\ Returned("start") /\ ret = [msg |-> MsgInitError, status |-> "None"]
    /\ scene # call_pre.scene

\* C8: a stop() call entered while simulation_running is false makes no teardown
\* call, changes neither the scene nor the registry and recording state, and returns
\* a 'not running' message.
C8_StopWhenNotRunningIsNoOp ==
    (ctl_op = "stop" /\ ~call_pre.running) =>
        /\ ctl_pc # "stop_cleanup"
        /\ ctl_pc = "idle" =>
              /\ Contains(ret.msg, "not running")
              /\ scene = call_pre.scene
              /\ call_pre.populated => (entity_count > 0 /\ recording)

\* C9: after a stop() call has returned, simulation_running is false, the scene is
\* None, the registry is empty with entity_count 0, the camera is None and recording
\* is false.
C9_StoppedStateIsClean ==
    Returned("stop") =>
        /\ ~simulation_running
        /\ scene = None
        /\ entities = <<>>
        /\ entity_count = 0
        /\ camera = NoCamera
        /\ ~recording

\* C9 witness: a stop() call has returned that was entered on a running session
\* with registered entities and an active recording.
C9_StoppedPopulatedSession ==
    Returned("stop") /\ call_pre.running /\ call_pre.populated

\* C10: a stop() call returns a statistics string containing 'Data points
\* collected:' when samples were recorded, and a warning when none were.
C10_StopReturnsStatistics ==
    Returned("stop") =>
        IF timestamps # <<>>
        THEN Contains(ret.msg, "Data points collected:")
        ELSE Contains(ret.msg, "Warning")

\* C11: a create_object call made while simulation_running is false returns the
\* 'no active' error, registers no entity and leaves entity_count as it was.
C11_CreateWithoutSessionRejected ==
    [][(ctl_pc = "idle" /\ ctl_op' = "create_object" /\ threads' = threads
           /\ ~simulation_running) =>
          /\ Contains(ret'.msg, "No active simulation")
          /\ entities' = entities
          /\ entity_count' = entity_count]_vars

\* C12: a successful create_object call registers exactly one new id, whose number
\* is greater than the number of every id already in the registry, and leaves every
\* entry already registered as it was.
C12_EntityIdsIncrease ==
    [][(ctl_pc = "idle" /\ ctl_op' = "create_object" /\ threads' = threads
           /\ Contains(ret'.msg, "Created")) =>
          \E id \in DOMAIN entities' \ DOMAIN entities :
              /\ DOMAIN entities' = DOMAIN entities \cup {id}
              /\ \A old \in DOMAIN entities :
                     old[2] < id[2] /\ entities'[old] = entities[old]]_vars

\* C12 witness: two entities created in one session are registered under two ids.
C12_TwoEntitiesRegistered ==
    /\ Returned("create_object") /\ Contains(ret.msg, "Created")
    /\ Cardinality(DOMAIN entities) = 2
    /\ entity_count = 2

\* An iteration of worker w raises in this step: scene.step() is looked up on None,
\* or the iteration ends with a scene in place and no complete sample recorded.
Raised(w) ==
    /\ threads'[w] # threads[w]
    /\ \/ threads[w].pc = "try" /\ scene = None
       \/ threads[w].pc = "stepping" /\ scene # None /\ energy_history' = energy_history

\* C13: the step in which an iteration raises appends exactly one entry, of level
\* error, and ends the worker; a worker that has ended takes no further step, so
\* it calls scene.step() no more and records no further sample.
C13_ErrorEndsWorker ==
    [][\A w \in Workers :
          /\ Raised(w) => /\ threads'[w].pc = "done"
                          /\ messages' = add_message(messages, "error")
          /\ threads[w].pc = "done" => threads'[w] = threads[w]]_vars

\* C13 witness: the current worker has ended on an error while the session it
\* serves is still running with its scene and samples are left to record.
C13_WorkerEndedOnError ==
    /\ simulation_running /\ scene # None
    /\ simulation_thread # None /\ threads[simulation_thread].pc = "done"
    /\ messages # <<>> /\ Last(messages) = "error"
    /\ Len(timestamps) < MaxTracked

\* C14: when a start() call entered on a stopped manager (flag false, no worker
\* alive) has returned successfully and its worker has not yet taken a step, the
\* tracker holds no timestamp and no position, velocity or energy sample.
C14_StartResetsTracker ==
    (/\ Returned("start") /\ ret.status = MsgStarted
     /\ ~call_pre.running /\ ~call_pre.alive
     /\ threads[simulation_thread] = NewThread) =>
        /\ timestamps = <<>>
        /\ position_history = <<>>
        /\ velocity_history = <<>>
        /\ energy_history = <<>>

\* C20: the tracker's timestamps are in non-decreasing order.
C20_TimestampsNonDecreasing ==
    \A i \in 1..(Len(timestamps) - 1) : timestamps[i] <= timestamps[i + 1]

\* The entries the console holds after the appends and clears of h took effect one
\* after the other, each as a whole.
RECURSIVE Replay(_)
Replay(h) ==
    IF h = <<>> THEN <<>>
    ELSE IF h[Len(h)] = ClearMark THEN console_clear
    ELSE add_message(Replay(SubSeq(h, 1, Len(h) - 1)), h[Len(h)])

\* The part of h after its last clear().
SinceClear(h) ==
    LET marks == {i \in 1..Len(h) : h[i] = ClearMark}
        from == IF marks = {} THEN 1
                ELSE 1 + CHOOSE i \in marks : \A j \in marks : j <= i
    IN  SubSeq(h, from, Len(h))

Quiescent == \A t \in Callers : callers[t].pc = "idle"

\* C15: whenever the console's lock is free, the console holds at most
\* max_messages entries.
C15_LogWithinCapacity == lock = None => Len(messages) <= MaxMessages

\* C15 witness: the lock is free again after an add_message call has evicted an
\* entry from the full console, and the caller has not rendered yet.
C15_FullLogAfterEviction ==
    /\ lock = None
    /\ Len(messages) = MaxMessages
    /\ Len(SinceClear(history)) > MaxMessages
    /\ \E t \in Callers : callers[t].pc = "render"

C17_SnapshotsLinearizable ==
    \A t \in Callers :
        callers[t].ret # Nothing =>
            /\ \E k \in 0..Len(history) :
                   callers[t].ret = get_messages(Replay(SubSeq(history, 1, k)))
            /\ Len(callers[t].ret) <= 2 * MaxMessages - 1

\* C17 witness: a caller holds the rendering get_messages returned to it while
\* another caller is between its append and its eviction, with the console over
\* capacity.
C17_SnapshotBesideOpenAppend ==
    \E t, u \in Callers :
        /\ callers[t].op = "get" /\ callers[t].ret # <<>>
        /\ callers[u].pc = "evict"
        /\ Len(messages) > MaxMessages

\* C18: the rendering an add_message call returns contains the entry the call
\* appended.
C18_AddReturnsOwnEntry ==
    \A t \in Callers :
        (callers[t].pc = "idle" /\ callers[t].op = "add") =>
            \E i \in 1..Len(callers[t].ret) : callers[t].ret[i] = callers[t].entry

\* C19: a get_messages() call that takes effect when the last append or clear to
\* have taken effect is a clear() returns the empty string.
C19_ClearThenGetIsEmpty ==
    [][\A t \in Callers :
          (/\ callers[t].pc = "idle" /\ callers'[t] # callers[t]
           /\ callers'[t].op = "get"
           /\ history # <<>> /\ Last(history) = ClearMark) =>
              callers'[t].ret = <<>>]_vars

\* C19 witness: get_messages() has returned the empty string after a clear() of a
\* console that held an entry.
C19_EmptyAfterClear ==
    \E t \in Callers :
        /\ callers[t].op = "get" /\ callers[t].ret = <<>>
        /\ Len(history) >= 2 /\ Last(history) = ClearMark
        /\ history[Len(history) - 1] # ClearMark

\* C21: an export running beside the recording worker, every tracking flag on,
\* builds each file from as many samples as it read timestamps and does not fail
\* on a length mismatch.
C21_ExportReadsConsistentSnapshot ==
    /\ ana.pc = "frame" => Len(History(ana.k)) = ana.time
    /\ ana.ret \notin {MsgExportValueError, MsgExportIndexError}

\* C22: an update_tracking call that passes its position block with
\* track_position on appends one position sample, and the sample holds one
\* position for every object of the scene passed to the call.
C22_SampleHasOnePositionPerEntity ==
    [][(rec.pc = "position" /\ track.position /\ rec'.pc = "velocity") =>
          /\ Len(position_history') = Len(position_history) + 1
          /\ Len(Last(position_history')) = Len(rec.objects)]_vars

\* C23: an export_data call that ends while nothing has been recorded writes no
\* file and does not report success.
C23_EmptyExportReportsNoData ==
    [][(/\ ana' # ana /\ ana'.op = "export_data" /\ ana'.pc = "idle"
        /\ timestamps = <<>> /\ position_history = <<>>
        /\ velocity_history = <<>> /\ energy_history = <<>>) =>
          (ana'.written = {} /\ ana'.ret # MsgExported)]_vars

\* The export flags of a call and the step that ends an export_data call.
Flag(call, k) ==
    CASE k = 1 -> call.export.position
      [] k = 2 -> call.export.velocity
      [] k = 3 -> call.export.energy

ExportEnds == ana' # ana /\ ana'.op = "export_data" /\ ana'.pc = "idle"

\* C24 as stated: when an export_data call ends, it has written a file exactly
\* if the file's flag was true and the file's history holds a sample.
C24_FileWrittenIffFlagAndSample ==
    [][ExportEnds =>
          \A k \in 1..Len(Files) :
              Files[k] \in ana'.written <=> (Flag(ana', k) /\ History(k) # <<>>)]_vars

\* C24: when an export_data call ends, every file it has written had its flag
\* true and a sample in its history, and if the call reports success every such
\* file has been written.
C24_FileWrittenOnlyIfFlagAndSample ==
    [][ExportEnds =>
          \A k \in 1..Len(Files) :
              /\ Files[k] \in ana'.written => (Flag(ana', k) /\ History(k) # <<>>)
              /\ (ana'.ret = MsgExported /\ Flag(ana', k) /\ History(k) # <<>>) =>
                     Files[k] \in ana'.written]_vars

\* C24 witness: an export has reported success after writing the energy file
\* and leaving out the positions file, whose history holds a sample.
C24_SomeFilesWritten ==
    /\ ana.op = "export_data" /\ ana.pc = "idle" /\ ana.ret = MsgExported
    /\ ana.written = {"energy"}
    /\ position_history # <<>> /\ ~ana.export.position

\* The step of an export_data call in which something fails: the directory
\* cannot be created, or the file at hand is not written.
ExportFails ==
    \/ ana.pc = "idle" /\ ana'.op = "export_data" /\ ana'.pc # "check"
    \/ ana.pc = "frame" /\ Files[ana.k] \notin ana'.written

\* C25: no step of export_data leaves the call by an exception, and a step in
\* which something fails ends the call with an 'Error exporting data' string.
C25_ExportNeverRaises ==
    [][(ana' # ana /\ ana'.op = "export_data") =>
          /\ ana'.pc # "raised"
          /\ ExportFails =>
                (ana'.pc = "idle" /\ "Error exporting data" \in Phrases(ana'.ret))]_vars

\* C25 witness: an export has returned the error string of a history shorter
\* than the timestamps.
C25_UnequalHistoriesReported ==
    /\ ana.op = "export_data" /\ ana.pc = "idle" /\ ana.ret = MsgExportValueError
    /\ \E k \in 1..Len(Files) :
          Flag(ana, k) /\ History(k) # <<>> /\ Len(History(k)) # Len(timestamps)

\* C26: an update_visualization call with recording_enabled false, made while
\* recording is active, that acknowledges success leaves recording false.
C26_StopRecordingSavedBeforeAck ==
    [][\A fail \in VisFailures :
          (recording /\ update_visualization(FALSE, fail) /\ ret'.msg = MsgVisUpdated) =>
              ~recording']_vars

\* C27: get_current_energy returns the last energy sample recorded, and
\* kinetic = potential = total = 0 when the energy history is empty.
C27_CurrentEnergyIsLastSample ==
    [][(ana' # ana /\ ana'.op = "get_current_energy") =>
          IF energy_history = <<>>
          THEN ana'.energy.kinetic = 0 /\ ana'.energy.potential = 0 /\ ana'.energy.total = 0
          ELSE ana'.energy = Last(energy_history)]_vars

\* C27 witness: get_current_energy has returned the second of two different
\* energy samples.
C27_LastOfTwoSamplesReturned ==
    /\ ana.op = "get_current_energy"
    /\ Len(energy_history) = 2 /\ energy_history[1] # energy_history[2]
    /\ ana.energy = energy_history[2]

\* A step of reset(): the call is made between two other calls and is the only
\* one that leaves "reset" as the last call without moving the recorder.
ResetStep ==
    /\ ana.pc = "idle" /\ ana'.pc = "idle" /\ ana'.op = "reset" /\ rec' = rec
    /\ ana' # ana \/ tracker_vars' # tracker_vars

\* C28: reset() leaves the position, velocity and energy histories and the
\* timestamps empty and the three tracking flags as they were.
C28_ResetClearsSamplesKeepsFlags ==
    [][ResetStep =>
          /\ position_history' = <<>> /\ velocity_history' = <<>>
          /\ energy_history' = <<>> /\ timestamps' = <<>>
          /\ track' = track]_vars

\* C28 witness: reset() has returned with position tracking switched off and
\* energy tracking on, and nothing is recorded.
C28_ResetWithFlagOff ==
    /\ ana.op = "reset" /\ ana.pc = "idle"
    /\ ~track.position /\ track.energy
    /\ timestamps = <<>> /\ position_history = <<>>
    /\ velocity_history = <<>> /\ energy_history = <<>>

\* C29: no console exists with a capacity below 1, so no call ever takes effect
\* on one.
C29_LowCapacityFailsFast == max_messages < 1 => history = <<>>

\* A controller call that reaches the engine: create_object getting to
\* scene.add_entity, update_visualization getting to the renderer and camera.
EngineCall ==
    /\ scene # None
    /\ \/ \E obj_type \in KnownTypes, mesh_file \in BOOLEAN, fail \in CreateFailures :
              (obj_type = "Mesh" => mesh_file) /\ create_object(obj_type, mesh_file, fail)
       \/ \E recording_enabled \in BOOLEAN, fail \in VisFailures :
              update_visualization(recording_enabled, fail)

\* C30: no controller call reaches the engine while a worker is inside
\* scene.step() on the same scene.
C30_EngineCallsExcludeStep ==
    [][EngineCall =>
          \A w \in Workers : ~(threads[w].pc = "stepping" /\ threads[w].sc = scene)]_vars

\* C31: when a worker leaves simulate_frames on an error (from inside the try
\* block), the session is no longer running: simulation_running is false.
C31_StepErrorEndsRunning ==
    [][\A w \in Workers :
          (threads[w].pc \in {"try", "stepping"} /\ threads'[w] = ExitedThread) =>
              ~simulation_running']_vars

\* C32: after a stop() has cleared simulation_running, a worker that was alive
\* at that moment begins at most one further scene.step() call.
C32_AtMostOneStepAfterStop == \A w \in DOMAIN late_steps : late_steps[w] <= 1

\* C33: every block of update_tracking that is passed without an exception
\* appends one entry to its history, whatever its tracking flag is, so that the
\* histories keep the length of timestamps.
C33_OneSamplePerCallWhateverFlags ==
    [][/\ (rec.pc = "position" /\ rec'.pc = "velocity") =>
              Len(position_history') = Len(position_history) + 1
       /\ (rec.pc = "velocity" /\ rec'.pc = "energy") =>
              Len(velocity_history') = Len(velocity_history) + 1
       /\ (rec.pc = "energy" /\ rec'.pc = "idle" /\ ~track.energy) =>
              Len(energy_history') = Len(energy_history) + 1]_vars

\* C34: a sample recorded with position and velocity tracking both on holds as
\* many velocities as positions, one of each for every object of the scene.
C34_PositionsMatchVelocities ==
    [][(rec.pc = "velocity" /\ rec'.pc = "energy" /\ track.position /\ track.velocity) =>
          /\ Len(Last(velocity_history')) = Len(Last(position_history'))
          /\ Len(Last(position_history')) = Len(rec.objects)]_vars

\* C35: no step of a worker changes entities, entity_count, camera or recording.
C35_WorkerLeavesRegistryAlone ==
    [][(threads' # threads /\ Len(threads') = Len(threads)) =>
          UNCHANGED <<entities, entity_count, camera, recording>>]_vars

\* C35 witness: a worker has left its loop while an entity is registered, the
\* camera exists and a recording is active.
C35_WorkerDoneBesideRegistry ==
    /\ \E w \in Workers : threads[w].pc = "done"
    /\ entity_count > 0 /\ DOMAIN entities # {}
    /\ camera # NoCamera /\ recording

\* The samples of file k as they are in memory: each timestamp with everything
\* recorded for it.
MemoryRows(k) ==
    [r \in 1..Len(History(k)) |->
        <<timestamps[r]>> \o
        IF k = Len(Files)
        THEN <<History(k)[r].kinetic, History(k)[r].potential, History(k)[r].total>>
        ELSE History(k)[r]]

\* C36: no step of export_data changes the histories, the timestamps or the
\* tracking flags, and the rows it writes to a file are the samples in memory,
\* in their order.
C36_ExportWritesMemoryRows ==
    [][(ana' # ana /\ ana'.op = "export_data") =>
          /\ UNCHANGED <<timestamps, position_history, velocity_history,
                         energy_history, track>>
          /\ (ana.pc = "frame" /\ Files[ana.k] \in ana'.written) =>
                CsvRows(ana.k, timestamps, History(ana.k)) = MemoryRows(ana.k)]_vars

\* C37: entity_count is the number of entries of the entity registry, between
\* any two calls and while start() or stop() is in progress.
C37_CountMatchesRegistry == entity_count = Cardinality(DOMAIN entities)

\* C37 witness: one entity is registered in the second scene, after the first
\* scene was stopped and cleaned up.
C37_RegisteredAfterRestart ==
    /\ scene = 2 /\ teardowns[1] = 1
    /\ Returned("create_object") /\ ret.msg = MsgCreated
    /\ entity_count = 1 /\ Cardinality(DOMAIN entities) = 1

\* C38: a create_object call that returns an error for an unknown type, a Mesh
\* without a mesh file or an exception from the engine leaves the entity
\* registry and entity_count as they were.
C38_FailedCreateKeepsRegistry ==
    [][(/\ ctl_pc = "idle" /\ ctl_op' = "create_object" /\ threads' = threads
        /\ ret'.msg \in {MsgUnknownType, MsgNoMesh, MsgCreateError}) =>
          UNCHANGED <<entities, entity_count>>]_vars

\* C38 witness: create_object has returned the engine's error while one entity
\* was registered, and that entity is still the only one.
C38_EngineErrorBesideEntity ==
    /\ Returned("create_object") /\ ret.msg = MsgCreateError
    /\ entity_count = 1 /\ Cardinality(DOMAIN entities) = 1
    /\ messages # <<>> /\ Last(messages) = "error"

\* C39: recording goes from true to false only in a step that has invoked
\* camera.stop_recording, i.e. in an update_visualization call with
\* recording_enabled false.
C39_RecordingEndsOnlyBySave ==
    [][(recording /\ ~recording') =>
          \E fail \in VisFailures : update_visualization(FALSE, fail)]_vars

====
